---- MODULE Spec2Model ----
(***************************************************************************)
(* Loss functions of utils/loss.py as a state machine.                     *)
(*                                                                         *)
(* The caller owns the tensors (logit, target, prediction, target_embed,   *)
(* gen_samples, x) and the loss objects (their configuration).  Every      *)
(* action is one call of one method: it reads the caller's tensors, leaves *)
(* in `ret` what the call returned and writes back the tensors and the     *)
(* configuration as the method's body leaves them.                         *)
(*                                                                         *)
(* Numbers.  A tensor element is an exact real of the form                 *)
(*      sum of (n/d) * sqrt(r)     (r square-free, n # 0, d > 0),          *)
(* written as the set of its terms <<r, n, d>>; a rational has the single  *)
(* radicand 1 and zero is the empty set.  Sums, products, quotients and    *)
(* square roots are exact.  exp and log, which leave this field, are       *)
(* rounded to multiples of 1/Scale.  The IEEE results of a division by     *)
(* zero and of the square root of a negative number are the values NaN     *)
(* and Inf.                                                                *)
(*                                                                         *)
(* Tensors.  A tensor of shape (n, c, h, w) is a sequence of n*h*w pixels  *)
(* (batch-major, as permute(0, 2, 3, 1).view(-1, c) lays them out), each   *)
(* a sequence of c channel values; a target of shape (n, h, w) is the      *)
(* sequence of the pixels' labels.  A 2-D sample matrix is the sequence    *)
(* of its rows.                                                            *)
(***************************************************************************)
EXTENDS Integers, Sequences, FiniteSets, TLC

(* ------------------------------ bounds ------------------------------- *)

\* Tensor elements are the integers 0 .. MaxVal.
MaxVal == 1

\* Class weights are the integers 1 .. MaxWeight.
MaxWeight == 2

\* gen_samples and x hold 1 .. MaxSamples rows each.
MaxSamples == 2

\* exp and log are rounded to multiples of 1/Scale.
Scale == 100

\* The shape (n, c, h, w) of logit, prediction and target_embed.
Shape == [n |-> 2, c |-> 2, h |-> 1, w |-> 1]

(* ------------------------------ numbers ------------------------------ *)

Abs(a) == IF a < 0 THEN 0 - a ELSE a

RECURSIVE GCD(_, _)
GCD(a, b) == IF b = 0 THEN a ELSE GCD(b, a % b)

NaN == {<<0, 0, 0>>}
Inf == {<<0, 1, 0>>}
Zero == {}

IsFinite(S) == \A t \in S : t[1] # 0

\* (n/d) * sqrt(r) in lowest terms, for d > 0; zero is the empty set.
Term(r, n, d) ==
    IF n = 0 THEN {}
    ELSE LET g == GCD(Abs(n), d) IN {<<r, n \div g, d \div g>>}

\* The rational n/d, d # 0.
Rat(n, d) == IF d < 0 THEN Term(1, 0 - n, 0 - d) ELSE Term(1, n, d)

Whole(k) == Rat(k, 1)

Rads(S) == {t[1] : t \in S}

\* The coefficient <<n, d>> of sqrt(r) in S.
Coef(S, r) ==
    IF r \in Rads(S)
    THEN LET t == CHOOSE u \in S : u[1] = r IN <<t[2], t[3]>>
    ELSE <<0, 1>>

NumAdd(S, T) ==
    IF S = NaN \/ T = NaN THEN NaN
    ELSE IF S = Inf \/ T = Inf THEN Inf
    ELSE UNION {LET a == Coef(S, r)
                    b == Coef(T, r)
                IN  Term(r, a[1] * b[2] + b[1] * a[2], a[2] * b[2])
                : r \in Rads(S) \cup Rads(T)}

\* S times the rational n/d, d > 0.
NumScale(S, n, d) ==
    IF ~IsFinite(S) THEN S
    ELSE UNION {Term(t[1], t[2] * n, t[3] * d) : t \in S}

NumNeg(S) == NumScale(S, -1, 1)

NumSub(S, T) == NumAdd(S, NumNeg(T))

\* sqrt(r1) * sqrt(r2) = g * sqrt(r1 * r2 / g^2) for square-free r1, r2 and
\* g their greatest common divisor.
TermMul(t, u) ==
    LET g == GCD(t[1], u[1])
    IN  Term((t[1] \div g) * (u[1] \div g), t[2] * u[2] * g, t[3] * u[3])

RECURSIVE SumPairs(_)
SumPairs(P) ==
    IF P = {} THEN Zero
    ELSE LET p == CHOOSE q \in P : TRUE
         IN  NumAdd(TermMul(p[1], p[2]), SumPairs(P \ {p}))

NumMul(S, T) ==
    IF S = NaN \/ T = NaN THEN NaN
    ELSE IF S = Inf \/ T = Inf THEN (IF S = Zero \/ T = Zero THEN NaN ELSE Inf)
    ELSE SumPairs(S \X T)

\* IEEE division by a tensor element that is zero, an integer or a single
\* norm q * sqrt(r) (the only divisors of this file): 0/0 is NaN, x/0 is
\* infinite, and 1 / ((n/d) sqrt(r)) = (d / (n r)) sqrt(r).
NumDiv(S, T) ==
    IF S = NaN \/ T = NaN THEN NaN
    ELSE IF T = Zero THEN (IF S = Zero THEN NaN ELSE Inf)
    ELSE IF T = Inf THEN (IF S = Inf THEN NaN ELSE Zero)
    ELSE IF S = Inf THEN Inf
    ELSE LET t == CHOOSE u \in T : TRUE
             inv == IF t[2] < 0 THEN Term(t[1], 0 - t[3], (0 - t[2]) * t[1])
                    ELSE Term(t[1], t[3], t[2] * t[1])
         IN  NumMul(S, inv)

RECURSIVE NumPow(_, _)
\* x ** k for an integer k >= 0; x ** 0 is 1 for every x, NaN included.
NumPow(S, k) == IF k = 0 THEN Whole(1) ELSE NumMul(S, NumPow(S, k - 1))

RECURSIVE NumSum(_)
\* torch.sum of a flattened tensor; the sum of no element is 0.
NumSum(seq) ==
    IF seq = <<>> THEN Zero ELSE NumAdd(Head(seq), NumSum(Tail(seq)))

RECURSIVE Bisect(_, _, _)
\* The largest m in lo .. hi with m * m <= q, given lo * lo <= q.
Bisect(q, lo, hi) ==
    IF lo = hi THEN lo
    ELSE LET mid == (lo + hi + 1) \div 2
         IN  IF mid * mid <= q THEN Bisect(q, mid, hi)
             ELSE Bisect(q, lo, mid - 1)

\* The integer square root of q >= 0 (46340^2 is the largest square of TLC's
\* integers).
ISqrt(q) == Bisect(q, 0, IF q < 46340 THEN q ELSE 46340)

RECURSIVE Strip(_, _)
\* The largest m with m^2 dividing q, for q >= 1 with no prime factor below
\* f: once f^3 > q, q is 1, a prime, a prime's square or a product of two
\* primes.
Strip(q, f) ==
    IF f * f > q \div f
    THEN LET s == ISqrt(q) IN IF s * s = q THEN s ELSE 1
    ELSE IF q % (f * f) = 0 THEN f * Strip(q \div (f * f), f)
    ELSE IF q % f = 0 THEN Strip(q \div f, f + 1)
    ELSE Strip(q, f + 1)

\* The largest m with m^2 dividing q, q >= 1.
SquarePart(q) == Strip(q, 2)

\* torch.sqrt of a rational: sqrt(n/d) = sqrt(n d) / d = (m/d) sqrt(r) with
\* n d = m^2 r; the square root of a negative number is NaN.
NumSqrt(S) ==
    IF S = NaN THEN NaN
    ELSE IF S = Inf THEN Inf
    ELSE IF S = Zero THEN Zero
    ELSE LET t == CHOOSE u \in S : TRUE
         IN  IF t[2] < 0 THEN NaN
             ELSE LET q == t[2] * t[3]
                      m == SquarePart(q)
                  IN  Term(q \div (m * m), m, t[3])

(* ------------------------------ exp, log ----------------------------- *)

\* Series are summed in units of 1/Prec and rounded to units of 1/Scale.
Prec == Scale * Scale

RECURSIVE ExpSeries(_, _, _)
\* sum over j >= k - 1 of t^j / j!  for t = m/Scale >= 0, in units of 1/Prec;
\* term is t^(k-1) / (k-1)!.
ExpSeries(m, k, term) ==
    IF term = 0 THEN 0
    ELSE term + ExpSeries(m, k + 1, (term * m) \div (Scale * k))

\* torch.exp at m/Scale, in units of 1/Scale, rounded to nearest.  exp(0) is
\* exactly 1; below -7 the result is under half a unit and rounds to 0.
ExpFix(m) ==
    IF m >= 0 THEN (ExpSeries(m, 1, Prec) + Scale \div 2) \div Scale
    ELSE IF 0 - m > 7 * Scale THEN 0
    ELSE LET e == ExpSeries(0 - m, 1, Prec)
         IN  (Scale * Prec + e \div 2) \div e

RECURSIVE AtanhSeries(_, _, _)
\* sum over j >= k of z^(2j+1) / (2j+1), in units of 1/Prec; pow is z^(2k+1).
AtanhSeries(z, k, pow) ==
    IF pow = 0 THEN 0
    ELSE pow \div (2 * k + 1)
         + AtanhSeries(z, k + 1, (((pow * z) \div Prec) * z) \div Prec)

\* log at y/Scale >= 1, in units of 1/Scale: log(y) = 2 atanh((y-1)/(y+1)).
\* log(1) is exactly 0.
LnFix(y) ==
    LET z == ((y - Scale) * Prec) \div (y + Scale)
    IN  (2 * AtanhSeries(z, 0, z) + Scale \div 2) \div Scale

\* ExpFix and LnFix tabulated over the arguments this file's losses reach:
\* exponents from -7 (below it exp rounds to 0) to the largest logit, and
\* logarithms of the sums of up to c such exponentials.
ExpTable == [m \in (0 - 7 * Scale)..(MaxVal * Scale) |-> ExpFix(m)]
LnTable == [y \in Scale..(Shape.c * ExpFix(MaxVal * Scale)) |-> LnFix(y)]

Exp(m) == IF m < 0 - 7 * Scale THEN 0 ELSE ExpTable[m]
Ln(y) == LnTable[y]

\* torch.exp of a rational: the argument is rounded down to a multiple of
\* 1/Scale first.
NumExp(S) ==
    IF ~IsFinite(S) THEN S
    ELSE LET a == Coef(S, 1) IN Rat(Exp((a[1] * Scale) \div a[2]), Scale)

(* ------------------------------ tensors ------------------------------ *)

NumPixels == Shape.n * Shape.h * Shape.w
Pixels == 1..NumPixels
Channels == 1..Shape.c

\* One pixel's channel values, and the tensors of shape (n, c, h, w).
Vecs == [Channels -> 0..MaxVal]
Tensors == [Pixels -> Vecs]

\* Class indices, and the label that marks a pixel as unlabeled.
Labels == 0..(Shape.c - 1) \cup {255}
Targets == [Pixels -> Labels]

\* 2-D sample matrices of 1 .. MaxSamples rows.
Samples == UNION {[1..m -> Vecs] : m \in 1..MaxSamples}

\* tensor.size() of a tensor of shape (n, c, h, w).
Size(t) ==
    [n |-> Len(t) \div (Shape.h * Shape.w), c |-> Len(t[1]),
     h |-> Shape.h, w |-> Shape.w]

RECURSIVE IntSum(_)
IntSum(seq) == IF seq = <<>> THEN 0 ELSE Head(seq) + IntSum(Tail(seq))

RECURSIVE BoolIndex(_, _)
\* tensor[mask] of a flattened tensor and a flattened boolean mask: the
\* elements whose mask entry is true, in order.
BoolIndex(flat, mask) ==
    IF flat = <<>> THEN <<>>
    ELSE (IF Head(mask) THEN <<Head(flat)>> ELSE <<>>)
         \o BoolIndex(Tail(flat), Tail(mask))

\* The pixel and the channel of the k-th element of a tensor of shape
\* (n, c, h, w) read in storage order.
PixelOf(k, sz) ==
    ((k - 1) \div (sz.c * sz.h * sz.w)) * (sz.h * sz.w)
    + ((k - 1) % (sz.h * sz.w)) + 1
ChannelOf(k, sz) == (((k - 1) \div (sz.h * sz.w)) % sz.c) + 1

\* A tensor of shape (n, c, h, w) flattened in storage order.
Flat(t, sz) ==
    [k \in 1..(sz.n * sz.c * sz.h * sz.w) |-> t[PixelOf(k, sz)][ChannelOf(k, sz)]]

\* mask.view(n, 1, h, w).repeat(1, c, 1, 1), flattened in storage order.
RepeatMask(mask, sz) ==
    [k \in 1..(sz.n * sz.c * sz.h * sz.w) |-> mask[PixelOf(k, sz)]]

(* ------------------------- what a call returns ------------------------ *)

NoReturn == [kind |-> "none", name |-> "", val |-> Zero]
\* A 0-dim tensor holding val.
Tensor(val) == [kind |-> "tensor", name |-> "", val |-> val]
\* A Python float.
Float(val) == [kind |-> "float", name |-> "", val |-> val]
\* A bound method of the loss object.
Method(name) == [kind |-> "method", name |-> name, val |-> Zero]
\* An exception leaving the call.
Raise(name) == [kind |-> "raise", name |-> name, val |-> Zero]

(* ------------------------- SegmentationLosses ------------------------ *)

NoWeight == [some |-> FALSE, w |-> <<>>]
Weights ==
    {NoWeight} \cup {[some |-> TRUE, w |-> v] : v \in [Channels -> 1..MaxWeight]}

\* SegmentationLosses.__init__ and its default arguments.
SegmentationLosses(weight, size_average, batch_average, ignore_index, cuda) ==
    [ignore_index |-> ignore_index, weight |-> weight,
     size_average |-> size_average, batch_average |-> batch_average,
     cuda |-> cuda]
SegDefault == SegmentationLosses(NoWeight, TRUE, TRUE, 255, FALSE)
SegConfigs ==
    {SegmentationLosses(wt, sa, ba, 255, cu) :
        wt \in Weights, sa \in BOOLEAN, ba \in BOOLEAN, cu \in BOOLEAN}

\* -log_softmax(v)[k] = log(sum over j of exp(v[j] - v[k])).
NegLogSoftmax(v, k) ==
    Rat(Ln(IntSum([j \in DOMAIN v |-> Exp((v[j] - v[k]) * Scale)])), Scale)

\* nn.CrossEntropyLoss(weight, ignore_index, size_average)(input, target):
\* the weighted negative log-likelihood of the pixels whose label is not
\* ignore_index, summed (size_average false) or divided by the sum of their
\* weights (size_average true; 0/0 when every pixel is ignored).
nn_CrossEntropyLoss(weight, ignore_index, size_average, input, tgt) ==
    LET wt(p) == IF tgt[p] = ignore_index THEN 0
                 ELSE IF weight.some THEN weight.w[tgt[p] + 1] ELSE 1
        total == NumSum([p \in DOMAIN tgt |->
                     IF tgt[p] = ignore_index THEN Zero
                     ELSE NumScale(NegLogSoftmax(input[p], tgt[p] + 1), wt(p), 1)])
    IN  IF size_average
        THEN NumDiv(total, Whole(IntSum([p \in DOMAIN tgt |-> wt(p)])))
        ELSE total

\* build_loss falling back to the default loss for an unknown mode.
build_loss_Default(self, mode) ==
    [self |-> self,
     ret  |-> IF mode = "focal" THEN Method("FocalLoss")
              ELSE IF mode = "ce_finetune" THEN Method("CrossEntropyLossFinetune")
              ELSE Method("CrossEntropyLoss")]

build_loss(self, mode) ==
    [self |-> self,
     ret  |-> IF mode = "ce" THEN Method("CrossEntropyLoss")
              ELSE IF mode = "focal" THEN Method("FocalLoss")
              ELSE IF mode = "ce_finetune" THEN Method("CrossEntropyLossFinetune")
              ELSE Raise("NotImplementedError")]

\* The result carries the arguments as the body leaves them: criterion and
\* loss are objects of the call, and `loss /= n` divides loss in place.
CrossEntropyLoss(self, logit, target) ==
    LET n == Size(logit).n
        criterion == nn_CrossEntropyLoss(self.weight, self.ignore_index,
                                         self.size_average, logit, target)
        loss == IF self.batch_average THEN NumDiv(criterion, Whole(n))
                ELSE criterion
    IN  [ret |-> Tensor(loss), self |-> self, logit |-> logit, target |-> target]

CrossEntropyLossFinetune(self, logit, target) ==
    LET criterion == nn_CrossEntropyLoss(NoWeight, self.ignore_index,
                                         self.size_average, logit, target)
        loss == IF self.batch_average
                THEN NumDiv(criterion, Whole(Size(logit).n))
                ELSE criterion
    IN  [ret |-> Tensor(loss), self |-> self, logit |-> logit, target |-> target]

\* gamma is an integer >= 0; alpha is None or a number.
NoAlpha == [some |-> FALSE, v |-> Zero]
Alpha(v) == [some |-> TRUE, v |-> v]

\* FocalLoss without the leading negation of line 65.
FocalLoss_NoNegation(self, logit, target, gamma, alpha) ==
    LET n == Size(logit).n
        logpt0 == NumNeg(nn_CrossEntropyLoss(self.weight, self.ignore_index,
                                             self.size_average, logit, target))
        pt == NumExp(logpt0)
        logpt == IF alpha.some THEN NumMul(logpt0, alpha.v) ELSE logpt0
        loss0 == NumMul(NumPow(NumSub(Whole(1), pt), gamma), logpt)
        loss == IF self.batch_average THEN NumDiv(loss0, Whole(n)) ELSE loss0
    IN  [ret |-> Tensor(loss), self |-> self, logit |-> logit, target |-> target]

FocalLoss(self, logit, target, gamma, alpha) ==
    LET n == Size(logit).n
        logpt0 == NumNeg(nn_CrossEntropyLoss(self.weight, self.ignore_index,
                                             self.size_average, logit, target))
        pt == NumExp(logpt0)
        logpt == IF alpha.some THEN NumMul(logpt0, alpha.v) ELSE logpt0
        loss0 == NumMul(NumNeg(NumPow(NumSub(Whole(1), pt), gamma)), logpt)
        loss == IF self.batch_average THEN NumDiv(loss0, Whole(n)) ELSE loss0
    IN  [ret |-> Tensor(loss), self |-> self, logit |-> logit, target |-> target]

(* ------------------------------ GMMNLoss ----------------------------- *)

\* GMMNLoss.__init__ and its default arguments.
GMMNLoss(sigma, cuda) == [sigma |-> sigma, cuda |-> cuda]
GMMNDefault == GMMNLoss(<<2, 5, 10, 20, 40, 80>>, FALSE)

Dot(u, v) == IntSum([j \in DOMAIN u |-> u[j] * v[j]])

\* get_scale_matrix with s2 of the sign of s1.
get_scale_matrix_SameSign(self, M, N) ==
    [i \in 1..N |-> Rat(1, N)] \o [i \in 1..M |-> Rat(1, M)]

\* torch.cat((s1, s2), 0) with s1 = N entries 1/N and s2 = M entries -1/M.
get_scale_matrix(self, M, N) ==
    [i \in 1..N |-> Rat(1, N)] \o [i \in 1..M |-> Rat(-1, M)]

\* 2 * (XX - 0.5 * X2 - 0.5 * X2.t()) at (i, j): minus the squared distance
\* of rows i and j.
TwiceScore(X, i, j) == 2 * Dot(X[i], X[j]) - Dot(X[i], X[i]) - Dot(X[j], X[j])

\* torch.exp(exp / v) at (i, j), in units of 1/Scale: the argument is rounded
\* down to a multiple of 1/Scale.
KernelVal(X, v, i, j) == Exp((TwiceScore(X, i, j) * Scale) \div (2 * v))

RECURSIVE LCM(_)
\* The least common denominator of a sequence of rationals.
LCM(s) ==
    IF s = <<>> THEN 1
    ELSE LET d == Coef(Head(s), 1)[2]
             l == LCM(Tail(s))
         IN  (d \div GCD(d, l)) * l

\* torch.sum(S * kernel_val) for S = s s^T, summed exactly over the common
\* denominator of s: with s[i] = a[i] / L, the sum of s[i] s[j] K[i][j] is
\* (sum of a[i] a[j] K[i][j]) / L^2.
KernelSum(X, s, v) ==
    LET L == LCM(s)
        a == [i \in DOMAIN s |-> Coef(s[i], 1)[1] * (L \div Coef(s[i], 1)[2])]
        n == Len(X)
    IN  Rat(IntSum([k \in 1..(n * n) |->
                LET i == ((k - 1) \div n) + 1
                    j == ((k - 1) % n) + 1
                IN  a[i] * a[j] * KernelVal(X, v, i, j)]),
            L * L * Scale)

RECURSIVE SigmaLoop(_, _, _)
\* loss = 0; for v in sigma: loss += KernelSum
SigmaLoop(X, s, sigma) ==
    IF sigma = <<>> THEN Zero
    ELSE NumAdd(KernelSum(X, s, Head(sigma)), SigmaLoop(X, s, Tail(sigma)))

moment_loss(self, gen_samples, x) ==
    LET X == gen_samples \o x
        M == Len(gen_samples)
        N == Len(x)
        s == get_scale_matrix(self, M, N)
        loss == NumSqrt(SigmaLoop(X, s, self.sigma))
    IN  [ret |-> Tensor(loss), self |-> self, gen_samples |-> gen_samples, x |-> x]

(* ------------------- masked regression losses ------------------------ *)

\* F.mse_loss(a, b, size_average) of two flattened tensors: the sum of the
\* squared differences, divided by the number of elements when size_average
\* (the mean of no element is 0/0).
F_mse_loss(a, b, size_average) ==
    LET total == NumSum([k \in DOMAIN a |->
                     NumMul(NumSub(a[k], b[k]), NumSub(a[k], b[k]))])
    IN  IF size_average THEN NumDiv(total, Whole(Len(a))) ELSE total

\* A tensor's elements as numbers.
AsNum(t) == [p \in DOMAIN t |-> [j \in DOMAIN t[p] |-> Whole(t[p][j])]]

\* mask.sum() of a boolean tensor.
MaskSum(mask) == IntSum([p \in DOMAIN mask |-> IF mask[p] THEN 1 ELSE 0])

\* MSELoss.mse_loss summing over every pixel, unlabeled ones included.
MSELoss_Unmasked(score, target, target_embed) ==
    LET sz == Size(score)
        mask == [p \in DOMAIN target |-> target[p] # 255]
        loss == NumDiv(F_mse_loss(Flat(AsNum(score), sz),
                                  Flat(AsNum(target_embed), sz), FALSE),
                       Whole(MaskSum(mask)))
    IN  [ret |-> Tensor(loss), score |-> score, target |-> target,
         target_embed |-> target_embed]

\* MSELoss.mse_loss dividing by the number of masked elements.
MSELoss_DivideByElements(score, target, target_embed) ==
    LET sz == Size(score)
        mask == [p \in DOMAIN target |-> target[p] # 255]
        mask_tensor == RepeatMask(mask, sz)
        score_masked == BoolIndex(Flat(AsNum(score), sz), mask_tensor)
        target_embed_masked == BoolIndex(Flat(AsNum(target_embed), sz), mask_tensor)
        loss == NumDiv(F_mse_loss(score_masked, target_embed_masked, FALSE),
                       Whole(Len(score_masked)))
    IN  [ret |-> Tensor(loss), score |-> score, target |-> target,
         target_embed |-> target_embed]

\* MSELoss.mse_loss taking the difference in place (score -= target_embed).
MSELoss_InPlace(score, target, target_embed) ==
    LET sz == Size(score)
        mask == [p \in DOMAIN target |-> target[p] # 255]
        mask_tensor == RepeatMask(mask, sz)
        score_masked == BoolIndex(Flat(AsNum(score), sz), mask_tensor)
        target_embed_masked == BoolIndex(Flat(AsNum(target_embed), sz), mask_tensor)
        loss == NumDiv(F_mse_loss(score_masked, target_embed_masked, FALSE),
                       Whole(MaskSum(mask)))
    IN  [ret |-> Tensor(loss),
         score |-> [p \in DOMAIN score |->
                       [j \in DOMAIN score[p] |-> score[p][j] - target_embed[p][j]]],
         target |-> target, target_embed |-> target_embed]

\* score, target and target_embed are left as passed: score_masked and
\* target_embed_masked are copies, and `loss /= mask_size` divides the new
\* tensor F.mse_loss returned.
MSELoss_mse_loss(score, target, target_embed) ==
    LET sz == Size(score)
        mask == [p \in DOMAIN target |-> target[p] # 255]
        mask_size == MaskSum(mask)
        mask_tensor == RepeatMask(mask, sz)
        score_masked == BoolIndex(Flat(AsNum(score), sz), mask_tensor)
        target_embed_masked == BoolIndex(Flat(AsNum(target_embed), sz), mask_tensor)
        loss == NumDiv(F_mse_loss(score_masked, target_embed_masked, FALSE),
                       Whole(mask_size))
    IN  [ret |-> Tensor(loss), score |-> score, target |-> target,
         target_embed |-> target_embed]

RECURSIVE Concat(_)
\* The rows of a 2-D tensor one after the other.
Concat(rows) == IF rows = <<>> THEN <<>> ELSE Head(rows) \o Concat(Tail(rows))

\* MSELoss_bis.mse_loss without the guard of line 185.
MSELoss_bis_Unguarded(prediction, target, target_embed) ==
    LET mask == [p \in DOMAIN target |-> target[p] # 255]
        prediction_masked == BoolIndex(AsNum(prediction), mask)
        target_embed_masked == BoolIndex(AsNum(target_embed), mask)
    IN  [ret |-> Tensor(F_mse_loss(Concat(prediction_masked),
                                   Concat(target_embed_masked), TRUE)),
         score |-> prediction, target |-> target, target_embed |-> target_embed]

\* prediction and target_embed are rebound to permuted copies and target to
\* a view that is only read.
MSELoss_bis_mse_loss(prediction, target, target_embed) ==
    LET mask == [p \in DOMAIN target |-> target[p] # 255]
        prediction_masked == BoolIndex(AsNum(prediction), mask)
        target_embed_masked == BoolIndex(AsNum(target_embed), mask)
        ret == IF MaskSum(mask) > 0
               THEN Tensor(F_mse_loss(Concat(prediction_masked),
                                      Concat(target_embed_masked), TRUE))
               ELSE Float(Zero)
    IN  [ret |-> ret, score |-> prediction, target |-> target,
         target_embed |-> target_embed]

\* torch.norm(t, p=2, dim=1, keepdim=True): one norm per pixel.
Norm(v) == NumSqrt(NumSum([j \in DOMAIN v |-> NumMul(v[j], v[j])]))

\* CosineLoss.cosine_loss guarded like the bis variant.
CosineLoss_Guarded(score, target, target_embed) ==
    LET sz == Size(score)
        normed(t) == [p \in DOMAIN t |->
                         [j \in DOMAIN t[p] |-> NumDiv(t[p][j], Norm(t[p]))]]
        mask == [p \in DOMAIN target |-> target[p] # 255]
        mask_size == MaskSum(mask)
        mask_tensor == RepeatMask(mask, sz)
        score_masked == BoolIndex(Flat(normed(AsNum(score)), sz), mask_tensor)
        target_embed_masked ==
            BoolIndex(Flat(normed(AsNum(target_embed)), sz), mask_tensor)
        loss0 == NumSub(Whole(mask_size),
                        NumSum([k \in DOMAIN score_masked |->
                            NumMul(score_masked[k], target_embed_masked[k])]))
    IN  [ret |-> IF mask_size > 0 THEN Tensor(NumDiv(loss0, Whole(mask_size)))
                 ELSE Float(Zero),
         score |-> score, target |-> target, target_embed |-> target_embed]

\* CosineLoss.cosine_loss without the normalisation of lines 212-216.
CosineLoss_NoNormalize(score, target, target_embed) ==
    LET sz == Size(score)
        mask == [p \in DOMAIN target |-> target[p] # 255]
        mask_size == MaskSum(mask)
        mask_tensor == RepeatMask(mask, sz)
        score_masked == BoolIndex(Flat(AsNum(score), sz), mask_tensor)
        target_embed_masked == BoolIndex(Flat(AsNum(target_embed), sz), mask_tensor)
        loss0 == NumSub(Whole(mask_size),
                        NumSum([k \in DOMAIN score_masked |->
                            NumMul(score_masked[k], target_embed_masked[k])]))
    IN  [ret |-> Tensor(NumDiv(loss0, Whole(mask_size))),
         score |-> score, target |-> target, target_embed |-> target_embed]

\* score = score / score_norm and target_embed = target_embed /
\* target_embed_norm bind the names to new tensors; the caller's are not
\* written.
CosineLoss_cosine_loss(score, target, target_embed) ==
    LET sz == Size(score)
        normed(t) == [p \in DOMAIN t |->
                         [j \in DOMAIN t[p] |-> NumDiv(t[p][j], Norm(t[p]))]]
        score1 == normed(AsNum(score))
        target_embed1 == normed(AsNum(target_embed))
        mask == [p \in DOMAIN target |-> target[p] # 255]
        mask_size == MaskSum(mask)
        mask_tensor == RepeatMask(mask, sz)
        score_masked == BoolIndex(Flat(score1, sz), mask_tensor)
        target_embed_masked == BoolIndex(Flat(target_embed1, sz), mask_tensor)
        loss0 == NumSub(Whole(mask_size),
                        NumSum([k \in DOMAIN score_masked |->
                            NumMul(score_masked[k], target_embed_masked[k])]))
        loss == NumDiv(loss0, Whole(mask_size))
    IN  [ret |-> Tensor(loss), score |-> score, target |-> target,
         target_embed |-> target_embed]

\* The eps of F.normalize (1e-12) and of cosine_similarity (1e-8, squared):
\* a positive number below every non-zero norm of a tensor of integers.
Eps == Rat(1, 1000000)

\* clamp_min(v, eps) of a norm or a squared norm v >= 0.
ClampMinEps(v) == IF v = Zero THEN Eps ELSE v

\* The least element of a row.
RowMin(v) == CHOOSE a \in {v[j] : j \in DOMAIN v} : \A j \in DOMAIN v : a <= v[j]

\* F.normalize(row - min(row), p=2, dim=1) = v / max(||v||, eps).
ShiftNormalize(row) ==
    LET v == [j \in DOMAIN row |-> Whole(row[j] - RowMin(row))]
    IN  [j \in DOMAIN v |-> NumDiv(v[j], ClampMinEps(Norm(v)))]

NumDot(u, v) == NumSum([j \in DOMAIN u |-> NumMul(u[j], v[j])])

\* cosine_similarity(a, b, dim=1, eps) = a.b / sqrt(max(|a|^2 |b|^2, eps^2)).
cosine_similarity(a, b) ==
    NumDiv(NumDot(a, b),
           NumSqrt(ClampMinEps(NumMul(NumDot(a, a), NumDot(b, b)))))

CosineLoss_bis_cosine_loss(prediction, target, target_embed) ==
    LET mask == [p \in DOMAIN target |-> target[p] # 255]
        prediction_masked == BoolIndex(prediction, mask)
        target_embed_masked == BoolIndex(target_embed, mask)
        a == [k \in DOMAIN prediction_masked |-> ShiftNormalize(prediction_masked[k])]
        b == [k \in DOMAIN target_embed_masked |-> ShiftNormalize(target_embed_masked[k])]
        mean == NumDiv(NumSum([k \in DOMAIN a |->
                           NumSub(Whole(1), cosine_similarity(a[k], b[k]))]),
                       Whole(Len(a)))
        ret == IF MaskSum(mask) > 0 THEN Tensor(mean) ELSE Float(Zero)
    IN  [ret |-> ret, score |-> prediction, target |-> target,
         target_embed |-> target_embed]

(* ---------------------------- state machine --------------------------- *)

VARIABLES
    seg,            \* the SegmentationLosses object
    gmmn,           \* the GMMNLoss object
    logit,          \* the caller's tensors
    target,
    prediction,
    target_embed,
    gen_samples,
    x,
    op,             \* the call that has returned: the method and its scalar
                    \* arguments; NoOp once the caller has taken the result
    ret,            \* what that call returned
    prev,           \* history: the call and the result the caller kept when
                    \* it last rewrote unlabeled pixels
    orig            \* history: the objects and tensors as the caller last
                    \* wrote them

objects == <<seg, gmmn>>
tensors == <<logit, target, prediction, target_embed, gen_samples, x>>
vars == <<seg, gmmn, logit, target, prediction, target_embed, gen_samples, x,
          op, ret, prev, orig>>

Op(name) == [name |-> name, mode |-> "", gamma |-> 0, alpha |-> NoAlpha]
NoOp == Op("")

\* build_loss is called with these mode strings.
Modes == {"ce", "focal", "ce_finetune", "mse", "CE", ""}
\* FocalLoss is called with these gamma and alpha (and its defaults 2, 0.5).
Gammas == {0, 2}
Alphas == {NoAlpha, Alpha(Rat(1, 2))}

ZeroTensor == [p \in Pixels |-> [j \in Channels |-> 0]]
ZeroSamples == <<[j \in Channels |-> 0]>>

Snapshot ==
    [seg |-> seg, gmmn |-> gmmn, logit |-> logit, target |-> target,
     prediction |-> prediction, target_embed |-> target_embed,
     gen_samples |-> gen_samples, x |-> x]

InitCommon ==
    /\ gmmn = GMMNDefault
    /\ op = NoOp
    /\ ret = NoReturn
    /\ prev = [op |-> NoOp, ret |-> NoReturn]
    /\ orig = Snapshot

\* A SegmentationLosses object of any configuration and its inputs.
InitSeg ==
    /\ seg \in SegConfigs
    /\ logit \in Tensors
    /\ target \in Targets
    /\ prediction = ZeroTensor
    /\ target_embed = ZeroTensor
    /\ gen_samples = ZeroSamples
    /\ x = ZeroSamples
    /\ InitCommon

\* The inputs of the masked regression losses.
InitReg ==
    /\ seg = SegDefault
    /\ logit = ZeroTensor
    /\ target \in Targets
    /\ prediction \in Tensors
    /\ target_embed \in Tensors
    /\ gen_samples = ZeroSamples
    /\ x = ZeroSamples
    /\ InitCommon

\* The inputs of the GMMN loss.
InitGMMN ==
    /\ seg = SegDefault
    /\ logit = ZeroTensor
    /\ target = [p \in Pixels |-> 0]
    /\ prediction = ZeroTensor
    /\ target_embed = ZeroTensor
    /\ gen_samples \in Samples
    /\ x \in Samples
    /\ InitCommon

Init == InitReg \/ InitSeg \/ InitGMMN

\* The caller makes one call at a time and takes its result before the next.
Idle == op = NoOp

Call_build_loss ==
    \E mode \in Modes :
        LET r == build_loss(seg, mode)
        IN  /\ Idle
            /\ seg' = r.self
            /\ ret' = r.ret
            /\ op' = [Op("build_loss") EXCEPT !.mode = mode]
            /\ UNCHANGED <<gmmn, tensors, prev, orig>>

Call_CrossEntropyLoss ==
    LET r == CrossEntropyLoss(seg, logit, target)
    IN  /\ Idle
        /\ seg' = r.self
        /\ logit' = r.logit
        /\ target' = r.target
        /\ ret' = r.ret
        /\ op' = Op("CrossEntropyLoss")
        /\ UNCHANGED <<gmmn, prediction, target_embed, gen_samples, x, prev, orig>>

Call_CrossEntropyLossFinetune ==
    LET r == CrossEntropyLossFinetune(seg, logit, target)
    IN  /\ Idle
        /\ seg' = r.self
        /\ logit' = r.logit
        /\ target' = r.target
        /\ ret' = r.ret
        /\ op' = Op("CrossEntropyLossFinetune")
        /\ UNCHANGED <<gmmn, prediction, target_embed, gen_samples, x, prev, orig>>

Call_FocalLoss ==
    \E gamma \in Gammas, alpha \in Alphas :
        LET r == FocalLoss(seg, logit, target, gamma, alpha)
        IN  /\ Idle
        /\ seg' = r.self
            /\ logit' = r.logit
            /\ target' = r.target
            /\ ret' = r.ret
            /\ op' = [Op("FocalLoss") EXCEPT !.gamma = gamma, !.alpha = alpha]
            /\ UNCHANGED <<gmmn, prediction, target_embed, gen_samples, x, prev, orig>>

Call_moment_loss ==
    LET r == moment_loss(gmmn, gen_samples, x)
    IN  /\ Idle
        /\ gmmn' = r.self
        /\ gen_samples' = r.gen_samples
        /\ x' = r.x
        /\ ret' = r.ret
        /\ op' = Op("GMMNLoss.moment_loss")
        /\ UNCHANGED <<seg, logit, target, prediction, target_embed, prev, orig>>

\* One call of a masked regression loss on the caller's prediction, target
\* and target_embed.
Regress(name, r) ==
    /\ Idle
    /\ prediction' = r.score
    /\ target' = r.target
    /\ target_embed' = r.target_embed
    /\ ret' = r.ret
    /\ op' = Op(name)
    /\ UNCHANGED <<objects, logit, gen_samples, x, prev, orig>>

Call_MSELoss_mse_loss ==
    Regress("MSELoss.mse_loss", MSELoss_mse_loss(prediction, target, target_embed))

Call_MSELoss_bis_mse_loss ==
    Regress("MSELoss_bis.mse_loss",
            MSELoss_bis_mse_loss(prediction, target, target_embed))

Call_CosineLoss_cosine_loss ==
    Regress("CosineLoss.cosine_loss",
            CosineLoss_cosine_loss(prediction, target, target_embed))

Call_CosineLoss_bis_cosine_loss ==
    Regress("CosineLoss_bis.cosine_loss",
            CosineLoss_bis_cosine_loss(prediction, target, target_embed))

\* The caller takes the returned value.
Take ==
    /\ ~Idle
    /\ op' = NoOp
    /\ ret' = NoReturn
    /\ UNCHANGED <<objects, tensors, prev, orig>>

RegressionLosses ==
    {"MSELoss.mse_loss", "MSELoss_bis.mse_loss",
     "CosineLoss.cosine_loss", "CosineLoss_bis.cosine_loss"}

\* The caller keeps a regression loss and the value it returned, and writes
\* new values to prediction and target_embed at one pixel whose label is 255.
PerturbIgnored ==
    \E p \in Pixels, v \in Vecs, e \in Vecs :
        /\ op.name \in RegressionLosses
        /\ target[p] = 255
        /\ <<v, e>> # <<prediction[p], target_embed[p]>>
        /\ prediction' = [prediction EXCEPT ![p] = v]
        /\ target_embed' = [target_embed EXCEPT ![p] = e]
        /\ prev' = [op |-> op, ret |-> ret]
        /\ op' = NoOp
        /\ ret' = NoReturn
        /\ orig' = [orig EXCEPT !.prediction = prediction',
                                !.target_embed = target_embed']
        /\ UNCHANGED <<objects, logit, target, gen_samples, x>>

NextSeg ==
    \/ Call_build_loss
    \/ Call_CrossEntropyLoss
    \/ Call_CrossEntropyLossFinetune
    \/ Call_FocalLoss

NextGMMN == Call_moment_loss

NextReg ==
    \/ Call_MSELoss_mse_loss
    \/ Call_MSELoss_bis_mse_loss
    \/ Call_CosineLoss_cosine_loss
    \/ Call_CosineLoss_bis_cosine_loss

Next == NextSeg \/ NextGMMN \/ NextReg \/ Take

\* Any sequence of loss calls on any of the inputs.
Spec == Init /\ [][Next]_vars

\* The segmentation losses on every configuration and input.
SpecSeg == InitSeg /\ [][NextSeg \/ Take]_vars

\* The GMMN loss on every pair of sample matrices.
SpecGMMN == InitGMMN /\ [][NextGMMN \/ Take]_vars

\* The masked regression losses, with a caller that rewrites unlabeled
\* pixels between calls.
SpecReg == InitReg /\ [][NextReg \/ Take \/ PerturbIgnored]_vars

(* ------------------------------- claims ------------------------------ *)

NoIgnored == \A p \in Pixels : target[p] # 255
AllIgnored == \A p \in Pixels : target[p] = 255
Kept == {p \in Pixels : target[p] # 255}

\* C1: with no pixel labelled 255, FocalLoss(logit, target, gamma=0,
\* alpha=None) returns what CrossEntropyLoss(logit, target) returns, sign and
\* batch division included, under every weight, size_average and
\* batch_average.
C1_FocalIsCrossEntropy ==
    (op.name = "FocalLoss" /\ op.gamma = 0 /\ ~op.alpha.some /\ NoIgnored)
        => ret = CrossEntropyLoss(seg, logit, target).ret

C1_Witness ==
    /\ op.name = "FocalLoss" /\ op.gamma = 0 /\ ~op.alpha.some /\ NoIgnored
    /\ seg.batch_average /\ seg.weight.some /\ ~seg.size_average
    /\ IsFinite(ret.val) /\ ret.val # Zero

\* C2: when every label is 255, MSELoss_bis.mse_loss and
\* CosineLoss_bis.cosine_loss return the float 0.0 (no NaN, no exception)
\* whatever prediction and target_embed hold.
C2_BisReturnsZero ==
    (AllIgnored /\ op.name \in {"MSELoss_bis.mse_loss", "CosineLoss_bis.cosine_loss"})
        => ret = Float(Zero)

C2_Witness ==
    /\ AllIgnored
    /\ op.name = "CosineLoss_bis.cosine_loss"
    /\ prediction # target_embed
    /\ ret = Float(Zero)

\* C3 as claimed: when every label is 255, MSELoss.mse_loss and
\* CosineLoss.cosine_loss raise instead of returning a value.
C3_StrictRaises ==
    (AllIgnored /\ op.name \in {"MSELoss.mse_loss", "CosineLoss.cosine_loss"})
        => ret.kind = "raise"

\* C3 as amended: when every label is 255, MSELoss.mse_loss and
\* CosineLoss.cosine_loss do the unguarded division 0/0 and return a tensor
\* holding NaN; nothing is raised and the result is not 0.0.
C3_StrictReturnsNaN ==
    (AllIgnored /\ op.name \in {"MSELoss.mse_loss", "CosineLoss.cosine_loss"})
        => ret = Tensor(NaN)

C3_Witness ==
    /\ AllIgnored
    /\ op.name = "CosineLoss.cosine_loss"
    /\ \A p \in Pixels : prediction[p] # ZeroTensor[p] /\ target_embed[p] # ZeroTensor[p]
    /\ ret = Tensor(NaN)

\* C4: build_loss returns CrossEntropyLoss for 'ce', FocalLoss for 'focal'
\* and CrossEntropyLossFinetune for 'ce_finetune'; for every other mode it
\* raises NotImplementedError and returns no loss.
C4_BuildLoss ==
    op.name = "build_loss" =>
        /\ op.mode = "ce" => ret = Method("CrossEntropyLoss")
        /\ op.mode = "focal" => ret = Method("FocalLoss")
        /\ op.mode = "ce_finetune" => ret = Method("CrossEntropyLossFinetune")
        /\ op.mode \notin {"ce", "focal", "ce_finetune"}
               => ret.kind = "raise" /\ ret.name = "NotImplementedError"

C4_Witness ==
    op.name = "build_loss" /\ op.mode = "CE" /\ ret.kind = "raise"

\* C5: a masked regression loss called again after prediction and
\* target_embed were rewritten at pixels labelled 255 only (same target, same
\* values at every other pixel) returns what it returned before.
C5_IgnoredPixelsDoNotCount ==
    (op # NoOp /\ op = prev.op) => ret = prev.ret

C5_Witness ==
    /\ op.name = "CosineLoss.cosine_loss" /\ op = prev.op
    /\ ~AllIgnored
    /\ \E p \in Pixels : target[p] = 255 /\ prediction[p] = ZeroTensor[p]
    /\ IsFinite(ret.val) /\ ret.val # Zero

C7_CosineOfSelfIsZero ==
    (/\ op.name = "CosineLoss.cosine_loss"
     /\ prediction = target_embed
     /\ NoIgnored
     /\ \A p \in Pixels : prediction[p] # ZeroTensor[p])
        => ret = Tensor(Zero)

\* A pixel whose norm is irrational (sqrt 2) and one whose norm is 1.
C7_Witness ==
    /\ op.name = "CosineLoss.cosine_loss"
    /\ prediction = target_embed
    /\ NoIgnored
    /\ \E p, q \in Pixels : Dot(prediction[p], prediction[p]) = 2
                            /\ Dot(prediction[q], prediction[q]) = 1
    /\ ret = Tensor(Zero)

\* C8: for all M, N >= 1 the scale vector is aligned with the rows of
\* X = concat(generated, real), so that S = s s^T weights real-real pairs by
\* 1/N^2, generated-generated pairs by 1/M^2 and cross pairs by -1/(M N).
C8_ScaleAligned ==
    op.name = "GMMNLoss.moment_loss" =>
        LET M == Len(gen_samples)
            N == Len(x)
            s == get_scale_matrix(gmmn, M, N)
            real(i) == i > M
        IN  \A i, j \in 1..(M + N) :
                NumMul(s[i], s[j]) =
                    IF real(i) /\ real(j) THEN Rat(1, N * N)
                    ELSE IF ~real(i) /\ ~real(j) THEN Rat(1, M * M)
                    ELSE Rat(-1, M * N)

\* The sum of the squared differences over the channels of the pixels whose
\* label is not 255.
SquaredError ==
    IntSum([k \in 1..(NumPixels * Shape.c) |->
        LET p == ((k - 1) \div Shape.c) + 1
            j == ((k - 1) % Shape.c) + 1
            d == prediction[p][j] - target_embed[p][j]
        IN  IF p \in Kept THEN d * d ELSE 0])

\* C9 as claimed: with a pixel whose label is not 255, MSELoss.mse_loss
\* divides the squared error by masked pixels x c and MSELoss_bis.mse_loss by
\* the masked pixels, so bis = c x strict.
C9_BisIsCTimesStrict ==
    (Kept # {} /\ op.name \in {"MSELoss.mse_loss", "MSELoss_bis.mse_loss"}) =>
        /\ op.name = "MSELoss.mse_loss"
               => ret.val = Rat(SquaredError, Cardinality(Kept) * Shape.c)
        /\ op.name = "MSELoss_bis.mse_loss"
               => ret.val = Rat(SquaredError, Cardinality(Kept))
        /\ MSELoss_bis_mse_loss(prediction, target, target_embed).ret.val
               = NumScale(MSELoss_mse_loss(prediction, target, target_embed).ret.val,
                          Shape.c, 1)

\* C9 as amended: MSELoss.mse_loss divides the squared error by the masked
\* pixels and MSELoss_bis.mse_loss by masked pixels x c, so strict = c x bis.
C9_StrictIsCTimesBis ==
    (Kept # {} /\ op.name \in {"MSELoss.mse_loss", "MSELoss_bis.mse_loss"}) =>
        /\ op.name = "MSELoss.mse_loss"
               => ret.val = Rat(SquaredError, Cardinality(Kept))
        /\ op.name = "MSELoss_bis.mse_loss"
               => ret.val = Rat(SquaredError, Cardinality(Kept) * Shape.c)
        /\ MSELoss_mse_loss(prediction, target, target_embed).ret.val
               = NumScale(MSELoss_bis_mse_loss(prediction, target, target_embed).ret.val,
                          Shape.c, 1)

C9_Witness ==
    /\ op.name = "MSELoss.mse_loss"
    /\ Kept # {} /\ Kept # Pixels
    /\ SquaredError > 0
    /\ ret.val = Rat(SquaredError, Cardinality(Kept))

\* What the call o returns on the objects and tensors st.
Returns(o, st) ==
    CASE o.name = "build_loss" -> build_loss(st.seg, o.mode).ret
      [] o.name = "CrossEntropyLoss" ->
            CrossEntropyLoss(st.seg, st.logit, st.target).ret
      [] o.name = "CrossEntropyLossFinetune" ->
            CrossEntropyLossFinetune(st.seg, st.logit, st.target).ret
      [] o.name = "FocalLoss" ->
            FocalLoss(st.seg, st.logit, st.target, o.gamma, o.alpha).ret
      [] o.name = "GMMNLoss.moment_loss" ->
            moment_loss(st.gmmn, st.gen_samples, st.x).ret
      [] o.name = "MSELoss.mse_loss" ->
            MSELoss_mse_loss(st.prediction, st.target, st.target_embed).ret
      [] o.name = "MSELoss_bis.mse_loss" ->
            MSELoss_bis_mse_loss(st.prediction, st.target, st.target_embed).ret
      [] o.name = "CosineLoss.cosine_loss" ->
            CosineLoss_cosine_loss(st.prediction, st.target, st.target_embed).ret
      [] o.name = "CosineLoss_bis.cosine_loss" ->
            CosineLoss_bis_cosine_loss(st.prediction, st.target, st.target_embed).ret
      [] OTHER -> NoReturn

\* C10: no call of a loss changes the loss objects' configuration or the
\* caller's tensors, and after any sequence of calls a call returns what it
\* returns on the objects and tensors as the caller wrote them.
C10_CallsChangeNothing ==
    /\ [][UNCHANGED <<objects, tensors>>]_vars
    /\ [](Snapshot = orig /\ ret = Returns(op, orig))

C10_Witness ==
    /\ op.name = "MSELoss.mse_loss"
    /\ Snapshot = orig
    /\ target_embed # ZeroTensor
    /\ IsFinite(ret.val) /\ ret.val # Zero

====
